---- MODULE Spec2Model ----
(***************************************************************************)
(* Model of misc/forgejo-mng/main.py: the three provisioning workflows     *)
(* (repo_command, pr_command, checkout_command), the token manager         *)
(* (create_access_token), create_webhook and create_pac_resources.         *)
(*                                                                         *)
(* The forge, the cluster and the local file system are the environment:   *)
(* each request or subprocess is one atomic step whose outcome (HTTP       *)
(* status, return code) is drawn from the outcomes the environment can     *)
(* give in its current state, and whose effect on the environment goes     *)
(* with the outcome.  A request is assumed to return a response unless the *)
(* code has a handler for the exception (token listing, kubectl lookup).   *)
(***************************************************************************)
EXTENDS Integers, Sequences, FiniteSets, TLC

\* ------------------------------------------------------------------ bounds
\* Invocations of the tool started in one behaviour.
MaxRuns == 2
\* Largest reading of the clock, in ticks.
MaxClock == 2
\* Resolution of the clock: readings of time.time() within one second.
TicksPerSecond == 2

\* -------------------------------------------------------------- vocabulary
Procs == {1, 2}

\* The authenticated account (ctx.obj["username"], ctx.obj["password"]).
username == "alice"
password == <<"password", 0>>
\* A token secret ("sha1" of the creation response).
Sha1(n) == <<"sha1", n>>
None == <<"none", 0>>

\* The repository argument and the strings a URL can be.
RepoName == "demo"
NoUrl == <<"", "">>
UrlOf(key) == key

\* A branch name not generated yet.
NoBranch == <<"", 0>>

\* Outcome of a call that raised instead of returning.
NoStatus == -1

\* Paths of the local file system and what a path can be.
DefaultCheckout == "/tmp/demo"
Destinations == {"/d/absent", "/d/file", "/d/empty", "/d/full"}
Paths == {DefaultCheckout} \cup Destinations
Absent == [kind |-> "absent", origin |-> NoUrl, branch |-> ""]
File == [kind |-> "file", origin |-> NoUrl, branch |-> ""]
EmptyDir == [kind |-> "empty", origin |-> NoUrl, branch |-> ""]
FullDir == [kind |-> "nonempty", origin |-> NoUrl, branch |-> ""]
CloneOf(url, br) == [kind |-> "nonempty", origin |-> url, branch |-> br]

\* Configured owner strings, as their "/"-separated segments.
OwnerStrings == {<<"alice">>, <<"org", "proj">>}
\* Repository arguments of checkout, as their "/"-separated segments.
RepoArgs == {<<RepoName>>, <<"org", RepoName>>}
ForgejoUrl == "http://forgejo"
\* The default of --internal-url.
DefaultInternalUrl == "http://forgejo-http.forgejo:3000"
HookUrls == {"", "http://hook"}
SmeeUrls == {"", "https://smee"}
Titles == {"", "My PR"}
\* Values of --pipelinerun-file: a path that is a file and one where nothing is.
PipelineRunFiles == {"/d/file", "/d/absent"}

VARIABLES
    \* ---- the forge
    tokens,      \* access tokens of the account: [name, sha1]
    nextSha,     \* the next secret the forge hands out
    repos,       \* repositories, by <<owner, name>>
    hooks,       \* webhooks: [repo, url]
    branches,    \* branches besides the default one: [repo, name]
    pulls,       \* pull requests: [repo, head, base, title]
    \* ---- the cluster
    namespaces,  \* namespace names
    secrets,     \* [ns, name, token]
    crs,         \* Repository custom resources: [ns, name, url]
    \* ---- the local machine
    fs,          \* path -> what is there
    clock,       \* latest reading of time.time(), in ticks
    config,      \* the resolved configuration: ctx.obj and repo_command's options
    given,       \* what the flags or environment and the secret folder give
    \* ---- the invocations
    runs,        \* invocations started so far
    pc,          \* where each invocation is
    cmd,         \* its subcommand
    cfg,         \* its command-line arguments
    token,       \* what create_access_token returned
    token_id,    \* the stale token found by the listing
    html_url,    \* repo_info.get("html_url", "")
    clone_url,   \* repo_info.get("clone_url", "")
    branch_name, \* generate_branch_name()
    now,         \* the time.time() it was made from
    log,         \* the requests and subprocesses issued, with their outcome
    exit_code    \* the exit status (0 while running)

forge == <<tokens, nextSha, repos, hooks, branches, pulls>>
cluster == <<namespaces, secrets, crs>>
local == <<fs, clock, config, given>>
world == <<forge, cluster, local>>
locals == <<pc, cmd, cfg, token, token_id, html_url, clone_url, branch_name, now,
           log, exit_code>>
vars == <<world, runs, locals>>

NoCfg == [repo |-> <<RepoName>>, on_org |-> FALSE, create_pac_cr |-> FALSE,
          destination |-> DefaultCheckout, title |-> "", no_open |-> TRUE,
          pipelinerun_file |-> "/d/file"]

\* What cli() and repo_command resolve from flags, environment and secret folder.  A
\* required field that no source gives is empty or None.
Configurations ==
    [forgejo_url : {"", ForgejoUrl}, username : {"", username}, password : {None, password},
     repo_owner : {<<>>} \cup OwnerStrings, skip_tls : {FALSE}, webhook_url : HookUrls,
     smee_url : SmeeUrls, internal_url : {DefaultInternalUrl}]

\* A secret folder that gives nothing, or none at all: load_secrets_from_folder is {}.
NoFolder ==
    [api_url |-> "", username |-> "", password |-> None, repo_owner |-> <<>>,
     smee_url |-> "", skip_tls |-> "", internal_url |-> ""]

\* What can be given: by flag or environment variable (a flag not given has its
\* default), and by the files of the secret folder or password store.
Sources ==
    [flags : [forgejo_url : {"", ForgejoUrl}, username : {"", username},
              password : {None, password}, repo_owner : {<<>>, <<"alice">>},
              skip_tls : BOOLEAN, webhook_url : HookUrls, smee_url : SmeeUrls,
              internal_url : {DefaultInternalUrl, "http://internal.flag"}],
     folder : [api_url : {"", "https://forgejo.folder"}, username : {"", "bob"},
               password : {None, <<"password", 1>>}, repo_owner : {<<>>, <<"org", "proj">>},
               smee_url : {"", "https://smee.folder"}, skip_tls : {"", "true", "false"},
               internal_url : {"", "http://internal.folder"}]]

\* load_secrets_from_folder: value.lower() in ("true", "1", "yes")
FolderSkipTls(value) == value \in {"true", "1", "yes"}

\* cli(): ctx.obj, merged from the folder secrets and the flags.
cli(g) ==
    [forgejo_url |-> IF g.folder.api_url # "" THEN g.folder.api_url ELSE g.flags.forgejo_url,
     username |-> IF g.folder.username # "" THEN g.folder.username ELSE g.flags.username,
     password |-> IF g.folder.password # None THEN g.folder.password ELSE g.flags.password,
     repo_owner |-> IF g.folder.repo_owner # <<>> THEN g.folder.repo_owner
                    ELSE g.flags.repo_owner,
     skip_tls |-> IF g.folder.skip_tls # "" THEN FolderSkipTls(g.folder.skip_tls)
                  ELSE g.flags.skip_tls,
     webhook_url |-> g.flags.webhook_url,
     smee_url |-> g.folder.smee_url,
     internal_url |-> g.folder.internal_url]

\* The head of repo_command: smee_url and internal_url come from its own options, and
\* from ctx.obj only when the option is empty or at its default.
repo_options(g, obj) ==
    [obj EXCEPT
        !.smee_url = IF g.flags.smee_url = "" /\ obj.smee_url # ""
                     THEN obj.smee_url ELSE g.flags.smee_url,
        !.internal_url = IF g.flags.internal_url = DefaultInternalUrl /\ obj.internal_url # ""
                         THEN obj.internal_url ELSE g.flags.internal_url]

\* The configuration a repo invocation works with.
Resolved(g) == repo_options(g, cli(g))

\* The configuration before cli() has run.
NoConfiguration ==
    [forgejo_url |-> "", username |-> "", password |-> None, repo_owner |-> <<>>,
     skip_tls |-> FALSE, webhook_url |-> "", smee_url |-> "", internal_url |-> ""]

\* Mutant: the forge URL is not among the required fields.
RequiredFieldsWithoutUrl == {"username", "password", "repo_owner"}

\* required_fields of validate_required_config
RequiredFields == {"forgejo_url", "username", "password", "repo_owner"}

\* not config.get(field)
NotGiven(c, field) ==
    CASE field = "forgejo_url" -> c.forgejo_url = ""
      [] field = "username" -> c.username = ""
      [] field = "password" -> c.password = None
      [] OTHER -> c.repo_owner = <<>>

\* missing_fields of validate_required_config
missing_fields(c) == {field \in RequiredFields : NotGiven(c, field)}

\* Nothing was run yet: the account has no token, the cluster is empty.
Start ==
    /\ tokens = {}
    /\ nextSha = 1
    /\ hooks = {}
    /\ branches = {}
    /\ pulls = {}
    /\ namespaces = {}
    /\ secrets = {}
    /\ crs = {}
    /\ fs = [x \in Paths |->
                CASE x = "/d/file" -> File
                  [] x = "/d/empty" -> EmptyDir
                  [] x = "/d/full" -> FullDir
                  [] OTHER -> Absent]
    /\ clock = 0
    /\ runs = 0
    /\ pc = [p \in Procs |-> "idle"]
    /\ cmd = [p \in Procs |-> "none"]
    /\ cfg = [p \in Procs |-> NoCfg]
    /\ token = [p \in Procs |-> None]
    /\ token_id = [p \in Procs |-> 0]
    /\ html_url = [p \in Procs |-> NoUrl]
    /\ clone_url = [p \in Procs |-> NoUrl]
    /\ branch_name = [p \in Procs |-> NoBranch]
    /\ now = [p \in Procs |-> 0]
    /\ log = [p \in Procs |-> <<>>]
    /\ exit_code = [p \in Procs |-> 0]

\* The configuration is given by flags and environment, repositories may exist.
Init ==
    /\ Start
    /\ repos \in SUBSET {<<"alice", RepoName>>, <<"org", RepoName>>}
    /\ config \in Configurations
    /\ given = [flags |-> config, folder |-> NoFolder]
    \* nothing else of the environment matters to a run that lacks a required field
    /\ missing_fields(config) # {} =>
           /\ repos = {}
           /\ config.webhook_url = ""
           /\ config.smee_url = ""

\* ------------------------------------------------------------ pure helpers
\* owner = repo_owner.split("/")[0] if "/" in repo_owner else repo_owner
Owner(repo_owner) == IF Len(repo_owner) > 1 THEN repo_owner[1] ELSE repo_owner[1]

\* checkout: owner, repo_name = repo.split("/", 1), else the configured owner
CheckoutOwner(c) == IF Len(c.repo) > 1 THEN c.repo[1] ELSE Owner(config.repo_owner)
CheckoutRepo(c) == IF Len(c.repo) > 1 THEN c.repo[2] ELSE c.repo[1]

\* The token name each workflow passes to create_access_token.
TokenName(p) ==
    CASE cmd[p] = "repo" -> RepoName
      [] cmd[p] = "pr" -> RepoName \o "-pr"
      [] OTHER -> "checkout-" \o CheckoutRepo(cfg[p])

\* Mutant: the branch name carries the full resolution of the clock.
generate_branch_name_ticks(t) == <<"pac-test-", t>>

\* f"pac-test-{int(time.time())}": the reading truncated to the second.
generate_branch_name(t) == <<"pac-test-", t \div TicksPerSecond>>

\* Mutant: the smee URL is preferred to the explicit webhook URL.
EffectiveWebhookUrlSmeeFirst(c) == IF c.smee_url # "" THEN c.smee_url ELSE c.webhook_url

\* effective_webhook_url = webhook_url if webhook_url else smee_url
EffectiveWebhookUrl(c) == IF c.webhook_url # "" THEN c.webhook_url ELSE c.smee_url

\* The repository key the delete and webhook requests address.
OwnerKey(p) == <<Owner(config.repo_owner), RepoName>>
\* Mutant: the create request names the configured owner, as delete and webhook do.
CreateKeyOfOwner(p) == <<Owner(config.repo_owner), RepoName>>

\* The repository key the create request lands on: orgs/{owner}/repos or user/repos.
CreateKey(p) == IF cfg[p].on_org THEN <<Owner(config.repo_owner), RepoName>>
                ELSE <<username, RepoName>>

\* Mutant: the forge accepts whatever is sent as a token, the password too.
AuthorizedWhateverIsSent(p) == TRUE

\* Whether the forge accepts "Authorization: token <value>".
Authorized(p) == \E t \in tokens : Sha1(t.sha1) = token[p]

\* One issued request or subprocess: its status or return code, and what it said or carried.
Entry(op, st, info) == [op |-> op, st |-> st, info |-> info]
Logged(p, op, st, info) == log' = [log EXCEPT ![p] = Append(@, Entry(op, st, info))]
Last(s) == s[Len(s)]
Ops(p) == {log[p][i].op : i \in 1..Len(log[p])}
Status(p, op) == {log[p][i].st : i \in {j \in 1..Len(log[p]) : log[p][j].op = op}}

\* sys.exit(1)
Fatal(p) ==
    /\ pc' = [pc EXCEPT ![p] = "done"]
    /\ exit_code' = [exit_code EXCEPT ![p] = 1]

\* The command returns: exit status zero.
Return(p) ==
    /\ pc' = [pc EXCEPT ![p] = "done"]
    /\ UNCHANGED exit_code

Goto(p, l) ==
    /\ pc' = [pc EXCEPT ![p] = l]
    /\ UNCHANGED exit_code

\* ------------------------------------------------------------ invocation
RepoConfigs ==
    {[NoCfg EXCEPT !.on_org = g, !.create_pac_cr = c] : g \in BOOLEAN, c \in BOOLEAN}
PrConfigs ==
    {[NoCfg EXCEPT !.title = t, !.no_open = n, !.pipelinerun_file = f] :
        t \in Titles, n \in BOOLEAN, f \in PipelineRunFiles}
CheckoutConfigs ==
    {[NoCfg EXCEPT !.repo = r, !.destination = d] : r \in RepoArgs, d \in Destinations}

\* The first step of each subcommand once its configuration is validated.
FirstStep(c) ==
    CASE c = "repo" -> "probe"
      [] c = "pr" -> "token_list"
      [] OTHER -> "co_validate"

\* cli() and the head of a subcommand: a new invocation with its arguments.  A
\* terminal runs its command line again: the subcommand stays, the arguments may change.
Invoke(p, c, a) ==
    /\ pc[p] \in {"idle", "done"}
    /\ cmd[p] \in {"none", c}
    /\ runs < MaxRuns
    /\ runs' = runs + 1
    /\ cmd' = [cmd EXCEPT ![p] = c]
    /\ cfg' = [cfg EXCEPT ![p] = a]
    /\ pc' = [pc EXCEPT ![p] = "validate"]
    /\ token' = [token EXCEPT ![p] = None]
    /\ token_id' = [token_id EXCEPT ![p] = 0]
    /\ html_url' = [html_url EXCEPT ![p] = NoUrl]
    /\ clone_url' = [clone_url EXCEPT ![p] = NoUrl]
    /\ branch_name' = [branch_name EXCEPT ![p] = NoBranch]
    /\ now' = [now EXCEPT ![p] = 0]
    /\ log' = [log EXCEPT ![p] = <<>>]
    /\ exit_code' = [exit_code EXCEPT ![p] = 0]
    /\ UNCHANGED world

StartRepo(p) == \E a \in RepoConfigs : Invoke(p, "repo", a)
StartPr(p) == \E a \in PrConfigs : Invoke(p, "pr", a)
StartCheckout(p) == \E a \in CheckoutConfigs : Invoke(p, "checkout", a)

\* validate_required_config: a missing required field ends the run with sys.exit(1).
Validate(p) ==
    /\ pc[p] = "validate"
    /\ IF missing_fields(config) # {} THEN Fatal(p) ELSE Goto(p, FirstStep(cmd[p]))
    /\ UNCHANGED <<world, runs, cmd, cfg, token, token_id, html_url, clone_url,
                   branch_name, now, log>>

\* repo_command: the TLS-redirect probe, made only for an http:// URL.
Probe(p) ==
    /\ pc[p] = "probe"
    /\ \E http \in BOOLEAN, outcome \in {"response", "SSLError", "Exception"} :
          IF http /\ outcome = "SSLError" THEN Fatal(p) ELSE Goto(p, "token_list")
    /\ UNCHANGED <<world, runs, cmd, cfg, token, token_id, html_url, clone_url,
                   branch_name, now, log>>

\* ------------------------------------------------- create_access_token
\* GET users/{user}/tokens; a stale token of the name is deleted next.
TokenList(p) ==
    /\ pc[p] = "token_list"
    /\ \E st \in {200, 500, NoStatus} :
          /\ Logged(p, "token_list", st, IF st = NoStatus THEN "Exception" ELSE "")
          /\ IF st = 200 /\ \E t \in tokens : t.name = TokenName(p)
             THEN /\ \E t \in tokens :
                        /\ t.name = TokenName(p)
                        /\ token_id' = [token_id EXCEPT ![p] = t.sha1]
                  /\ Goto(p, "token_delete")
             ELSE /\ UNCHANGED token_id
                  /\ Goto(p, "token_create")
    /\ UNCHANGED <<world, runs, cmd, cfg, token, html_url, clone_url, branch_name, now>>

\* DELETE users/{user}/tokens/{id}; the outcome is not looked at.
TokenDelete(p) ==
    /\ pc[p] = "token_delete"
    /\ \E st \in IF \E t \in tokens : t.sha1 = token_id[p] THEN {204, 500} ELSE {404} :
          /\ Logged(p, "token_delete", st, "")
          /\ tokens' = IF st = 204 THEN {t \in tokens : t.sha1 # token_id[p]} ELSE tokens
    /\ Goto(p, "token_create")
    /\ UNCHANGED <<nextSha, repos, hooks, branches, pulls, cluster, local, runs, cmd, cfg,
                   token, token_id, html_url, clone_url, branch_name, now>>

\* Mutant: a token is created although its name is in use.
TokenCreateStatusesAnyName(name) == {201, 500}

\* The statuses the forge can answer a token creation with: a name in use is refused.
TokenCreateStatuses(name) ==
    IF \E t \in tokens : t.name = name THEN {400} ELSE {201, 500}

\* Mutant: no fallback, a failed creation returns nothing.
CreateTokenResultNoFallback(st, sha) == IF st \in {201, 200} THEN Sha1(sha) ELSE None

\* What create_access_token returns: the new secret, or the password as a fallback.
CreateTokenResult(st, sha) == IF st \in {201, 200} THEN Sha1(sha) ELSE password

\* Mutant: repo_command creates the repository without the delete before it.
AfterTokenNoDelete(p) ==
    CASE cmd[p] = "repo" -> "repo_create"
      [] cmd[p] = "pr" -> "pr_read"
      [] OTHER -> "co_clone"

\* Where each workflow goes once it holds a credential.
AfterToken(p) ==
    CASE cmd[p] = "repo" -> "repo_delete"
      [] cmd[p] = "pr" -> "pr_read"
      [] OTHER -> "co_clone"

\* POST users/{user}/tokens, the password fallback, and the caller's "if not token".
TokenCreate(p) ==
    /\ pc[p] = "token_create"
    /\ \E st \in TokenCreateStatuses(TokenName(p)) :
          /\ Logged(p, "token_create", st, "")
          /\ IF st \in {201, 200}
             THEN /\ tokens' = tokens \cup {[name |-> TokenName(p), sha1 |-> nextSha]}
                  /\ nextSha' = nextSha + 1
             ELSE UNCHANGED <<tokens, nextSha>>
          /\ token' = [token EXCEPT ![p] = CreateTokenResult(st, nextSha)]
    /\ IF token'[p] = None THEN Fatal(p) ELSE Goto(p, AfterToken(p))
    \* generate_branch_name(): the clock is read, and never runs backwards
    /\ IF cmd[p] = "pr"
       THEN \E t \in clock..MaxClock :
                /\ clock' = t
                /\ now' = [now EXCEPT ![p] = t]
                /\ branch_name' = [branch_name EXCEPT ![p] = generate_branch_name(t)]
       ELSE UNCHANGED <<clock, branch_name, now>>
    /\ UNCHANGED <<repos, hooks, branches, pulls, cluster, fs, config, given, runs, cmd, cfg,
                   token_id, html_url, clone_url>>

\* ------------------------------------------------------------ repo_command
\* What the forge drops together with a repository.
WithoutRepo(set, key) == {x \in set : x.repo # key}

\* The statuses of a token-authenticated request on an existing thing: refused without
\* a valid token, else `present` if the thing is there and `absent` if it is not.
AnswerUnchecked(p, there, present, absent) == IF there THEN present ELSE absent

Answer(p, there, present, absent) ==
    IF ~Authorized(p) THEN {401} ELSE IF there THEN present ELSE absent

\* DELETE repos/{owner}/{repo}: only 204 is looked at, and only to print.
RepoDelete(p) ==
    /\ pc[p] = "repo_delete"
    /\ \E st \in Answer(p, OwnerKey(p) \in repos, {204, 500}, {404}) :
          /\ Logged(p, "repo_delete", st, "")
          /\ IF st = 204
             THEN /\ repos' = repos \ {OwnerKey(p)}
                  /\ hooks' = WithoutRepo(hooks, OwnerKey(p))
                  /\ branches' = WithoutRepo(branches, OwnerKey(p))
                  /\ pulls' = WithoutRepo(pulls, OwnerKey(p))
             ELSE UNCHANGED <<repos, hooks, branches, pulls>>
    /\ Goto(p, "repo_create")
    /\ UNCHANGED <<tokens, nextSha, cluster, local, runs, cmd, cfg, token, token_id,
                   html_url, clone_url, branch_name, now>>

\* The step after the repository exists: webhook, cluster registration or clone.
AfterWebhook(p) == IF cfg[p].create_pac_cr THEN "pac_namespace" ELSE "clone"
AfterCreate(p) == IF EffectiveWebhookUrl(config) # "" THEN "webhook" ELSE AfterWebhook(p)

\* Mutant: a server error on creation is not looked at either.
CreateAcceptedAlsoServerError == {201, 409, 500}

\* The creation statuses repo_command goes on with.
CreateAccepted == {201, 409}

\* POST orgs/{owner}/repos or user/repos; 201 and 409 go on, anything else is fatal.
\* A 409 body is an error document: it has neither html_url nor clone_url.
RepoCreate(p) ==
    /\ pc[p] = "repo_create"
    /\ \E st \in Answer(p, CreateKey(p) \in repos, {409}, {201, 500}) :
          /\ Logged(p, "repo_create", st, "")
          /\ repos' = IF st = 201 THEN repos \cup {CreateKey(p)} ELSE repos
          /\ IF st \notin CreateAccepted
             THEN /\ Fatal(p)
                  /\ UNCHANGED <<html_url, clone_url>>
             ELSE /\ html_url' = [html_url EXCEPT ![p] =
                                    IF st = 201 THEN UrlOf(CreateKey(p)) ELSE NoUrl]
                  /\ clone_url' = [clone_url EXCEPT ![p] =
                                    IF st = 201 THEN UrlOf(CreateKey(p)) ELSE NoUrl]
                  /\ Goto(p, AfterCreate(p))
    /\ UNCHANGED <<tokens, nextSha, hooks, branches, pulls, cluster, local, runs, cmd,
                   cfg, token, token_id, branch_name, now>>

\* create_webhook: POST repos/{owner}/{repo}/hooks; any outcome is only printed.
CreateWebhook(p) ==
    /\ pc[p] = "webhook"
    /\ \E st \in Answer(p, OwnerKey(p) \in repos, {201, 500}, {404}) :
          /\ Logged(p, "webhook", st, EffectiveWebhookUrl(config))
          /\ hooks' = IF st = 201
                      THEN hooks \cup {[repo |-> OwnerKey(p),
                                        url |-> EffectiveWebhookUrl(config)]}
                      ELSE hooks
    /\ Goto(p, AfterWebhook(p))
    /\ UNCHANGED <<tokens, nextSha, repos, branches, pulls, cluster, local, runs, cmd,
                   cfg, token, token_id, html_url, clone_url, branch_name, now>>

\* ---------------------------------------------------- create_pac_resources
\* Mutant: the resources go to the namespace of the current context.
NamespaceOfContext(p) == "default"

\* namespace = target_ns if target_ns else repo; repo_name = repo.  The runs modelled
\* leave --target-ns at its default.
Namespace(p) == RepoName

\* Mutant: only a newly created namespace lets the sub-step go on.
AfterNamespaceOnlyCreated(out) == IF out.st = 0 THEN "pac_secret_delete" ELSE "clone"

\* except FileNotFoundError: return; every return code goes on to the secret.
AfterNamespace(out) == IF out.st = NoStatus THEN "clone" ELSE "pac_secret_delete"

\* kubectl create namespace: a missing kubectl ends the sub-step, any other
\* outcome (created, AlreadyExists, another error) goes on to the secret.
PacNamespace(p) ==
    /\ pc[p] = "pac_namespace"
    /\ \E out \in {Entry("create_namespace", NoStatus, "FileNotFoundError"),
                   Entry("create_namespace", 1, "Forbidden")}
                  \cup (IF Namespace(p) \in namespaces
                        THEN {Entry("create_namespace", 1, "AlreadyExists")}
                        ELSE {Entry("create_namespace", 0, "")}) :
          /\ Logged(p, out.op, out.st, out.info)
          /\ namespaces' = IF out.st = 0 THEN namespaces \cup {Namespace(p)} ELSE namespaces
          /\ Goto(p, AfterNamespace(out))
    /\ UNCHANGED <<forge, secrets, crs, local, runs, cmd, cfg, token, token_id,
                   html_url, clone_url, branch_name, now>>

Named(set, p) == {x \in set : x.ns = Namespace(p) /\ x.name = RepoName}

\* kubectl delete secret --ignore-not-found=true; the outcome is not looked at.
PacSecretDelete(p) ==
    /\ pc[p] = "pac_secret_delete"
    /\ \E rc \in IF Named(secrets, p) = {} THEN {0} ELSE {0, 1} :
          /\ Logged(p, "delete_secret", rc, "")
          /\ secrets' = IF rc = 0 THEN secrets \ Named(secrets, p) ELSE secrets
    /\ Goto(p, "pac_secret_create")
    /\ UNCHANGED <<forge, namespaces, crs, local, runs, cmd, cfg, token, token_id,
                   html_url, clone_url, branch_name, now>>

\* Mutant: a failed secret creation does not end the sub-step.
AfterSecretGoesOn(rc) == "pac_cr_delete"

\* if result.returncode == 0: go on; else: print and return to repo_command.
AfterSecret(rc) == IF rc = 0 THEN "pac_cr_delete" ELSE "clone"

\* kubectl create secret generic --from-literal=token=...; a failure ends the sub-step.
PacSecretCreate(p) ==
    /\ pc[p] = "pac_secret_create"
    /\ \E rc \in IF Namespace(p) \in namespaces /\ Named(secrets, p) = {}
                 THEN {0, 1} ELSE {1} :
          /\ Logged(p, "create_secret", rc, "")
          /\ secrets' = IF rc = 0
                        THEN secrets \cup {[ns |-> Namespace(p), name |-> RepoName,
                                            token |-> token[p]]}
                        ELSE secrets
          /\ Goto(p, AfterSecret(rc))
    /\ UNCHANGED <<forge, namespaces, crs, local, runs, cmd, cfg, token, token_id,
                   html_url, clone_url, branch_name, now>>

\* kubectl delete repository --ignore-not-found=true; the outcome is not looked at.
PacCrDelete(p) ==
    /\ pc[p] = "pac_cr_delete"
    /\ \E rc \in IF Named(crs, p) = {} THEN {0} ELSE {0, 1} :
          /\ Logged(p, "delete_repository", rc, "")
          /\ crs' = IF rc = 0 THEN crs \ Named(crs, p) ELSE crs
    /\ Goto(p, "pac_cr_apply")
    /\ UNCHANGED <<forge, namespaces, secrets, local, runs, cmd, cfg, token, token_id,
                   html_url, clone_url, branch_name, now>>

\* kubectl apply -f - with the Repository manifest; any outcome is only printed.
PacCrApply(p) ==
    /\ pc[p] = "pac_cr_apply"
    /\ \E rc \in IF Namespace(p) \in namespaces THEN {0, 1} ELSE {1} :
          /\ Logged(p, "apply_repository", rc, "")
          /\ crs' = IF rc = 0
                    THEN (crs \ Named(crs, p))
                         \cup {[ns |-> Namespace(p), name |-> RepoName, url |-> html_url[p]]}
                    ELSE crs
    /\ Goto(p, "clone")
    /\ UNCHANGED <<forge, namespaces, secrets, local, runs, cmd, cfg, token, token_id,
                   html_url, clone_url, branch_name, now>>

\* --------------------------------------------------- repo_command, local part
\* local_checkout = local_repo if local_repo else f"/tmp/{repo}".  The runs modelled
\* leave --local-repo at its default; the directory exists from the second run on.
LocalCheckout(p) == DefaultCheckout

\* git clone of a URL succeeds only if the URL names a repository of the forge.
CloneOutcomes(url) == IF url # NoUrl /\ url \in repos THEN {0, 128} ELSE {128}

\* Mutant: a failed git step removes the repository the run created.
GitFailsRollback(p) ==
    /\ Fatal(p)
    /\ repos' = repos \ {CreateKey(p)}
    /\ hooks' = WithoutRepo(hooks, CreateKey(p))
    /\ branches' = WithoutRepo(branches, CreateKey(p))
    /\ pulls' = WithoutRepo(pulls, CreateKey(p))
    /\ UNCHANGED <<fs, tokens, nextSha, cluster>>

\* Mutant: a failed git step is run again.
GitFailsRetries(p) ==
    /\ UNCHANGED <<pc, exit_code>>
    /\ UNCHANGED <<fs, forge, cluster>>

\* except subprocess.CalledProcessError: print and exit 1; nothing is undone.
GitFails(p) ==
    /\ Fatal(p)
    /\ UNCHANGED <<fs, forge, cluster>>

\* Mutant: the destination is never found to exist.
LocalPathExistsNever(path) == FALSE

\* local_path.exists()
LocalPathExists(path) == fs[path].kind # "absent"

\* An existing destination skips the clone and returns; else git clone <auth_url>.
Clone(p) ==
    /\ pc[p] = "clone"
    /\ IF LocalPathExists(LocalCheckout(p))
       THEN /\ Return(p)
            /\ UNCHANGED <<fs, log, forge, cluster>>
       ELSE \E rc \in CloneOutcomes(clone_url[p]) :
               /\ Logged(p, "git_clone", rc, "")
               /\ IF rc = 0
                  THEN /\ fs' = [fs EXCEPT ![LocalCheckout(p)] = CloneOf(clone_url[p], "main")]
                       /\ Goto(p, "branch")
                       /\ UNCHANGED <<forge, cluster>>
                  ELSE GitFails(p)
    /\ UNCHANGED <<clock, config, given, runs, cmd, cfg, token, token_id, html_url,
                   clone_url, branch_name, now>>

\* git checkout -b tektonci in the clone.
Branch(p) ==
    /\ pc[p] = "branch"
    /\ \E rc \in {0, 128} :
          /\ Logged(p, "git_checkout", rc, "")
          /\ IF rc = 0
             THEN /\ fs' = [fs EXCEPT ![LocalCheckout(p)].branch = "tektonci"]
                  /\ Return(p)
                  /\ UNCHANGED <<forge, cluster>>
             ELSE GitFails(p)
    /\ UNCHANGED <<clock, config, given, runs, cmd, cfg, token, token_id, html_url,
                   clone_url, branch_name, now>>

\* -------------------------------------------------------------- pr_command
\* Mutant: a missing pipeline-definition file is not noticed.
PipelineRunMissingNever(path) == FALSE

\* not pipelinerun_path.exists()
PipelineRunMissing(path) == fs[path].kind = "absent"

\* The pipeline-definition file must exist.
PrRead(p) ==
    /\ pc[p] = "pr_read"
    /\ IF PipelineRunMissing(cfg[p].pipelinerun_file) THEN Fatal(p) ELSE Goto(p, "pr_commit")
    /\ UNCHANGED <<world, runs, cmd, cfg, token, token_id, html_url, clone_url,
                   branch_name, now, log>>

\* create_file_on_branch: POST repos/{owner}/{repo}/contents/{path} with new_branch.
PrCommit(p) ==
    /\ pc[p] = "pr_commit"
    /\ LET b == [repo |-> OwnerKey(p), name |-> branch_name[p]] IN
       \E st \in Answer(p, OwnerKey(p) \in repos,
                        IF b \in branches THEN {422} ELSE {201, 500}, {404}) :
          /\ Logged(p, "create_file", st, "")
          /\ branches' = IF st = 201 THEN branches \cup {b} ELSE branches
          /\ IF st \in {201, 200} THEN Goto(p, "pr_create") ELSE Fatal(p)
    /\ UNCHANGED <<tokens, nextSha, repos, hooks, pulls, cluster, local, runs, cmd, cfg,
                   token, token_id, html_url, clone_url, branch_name, now>>

\* title = f"Test PR - {branch_name}" unless one is given
PrTitle(p) == IF cfg[p].title = "" THEN <<"Test PR - ", branch_name[p]>>
              ELSE <<cfg[p].title, NoBranch>>

\* create_pull_request_api: POST repos/{owner}/{repo}/pulls.
PrCreate(p) ==
    /\ pc[p] = "pr_create"
    /\ LET b == [repo |-> OwnerKey(p), name |-> branch_name[p]]
           open == \E q \in pulls : q.repo = OwnerKey(p) /\ q.head = branch_name[p]
       IN
       \E st \in Answer(p, OwnerKey(p) \in repos /\ b \in branches,
                        IF open THEN {409} ELSE {201, 500}, {404}) :
          /\ Logged(p, "create_pull", st, "")
          /\ pulls' = IF st = 201
                      THEN pulls \cup {[repo |-> OwnerKey(p), head |-> branch_name[p],
                                        base |-> "main", title |-> PrTitle(p)]}
                      ELSE pulls
          /\ IF st \in {201, 200} THEN Goto(p, "pr_open") ELSE Fatal(p)
    /\ UNCHANGED <<tokens, nextSha, repos, hooks, branches, cluster, local, runs, cmd, cfg,
                   token, token_id, html_url, clone_url, branch_name, now>>

\* webbrowser.open(pr_url) unless --no-open; its result is not looked at.
PrOpen(p) ==
    /\ pc[p] = "pr_open"
    /\ IF cfg[p].no_open = FALSE
       THEN \E opened \in BOOLEAN : Logged(p, "browser_open", IF opened THEN 0 ELSE 1, "")
       ELSE UNCHANGED log
    /\ Return(p)
    /\ UNCHANGED <<world, runs, cmd, cfg, token, token_id, html_url, clone_url,
                   branch_name, now>>

\* -------------------------------------------------------- checkout_command
\* Mutant: only a file is refused, a non-empty directory is not.
DestinationRefusedOnlyFile(d) == d.kind # "absent" /\ d.kind = "file"

\* dest_path.exists() and (dest_path.is_file() or any(dest_path.iterdir()))
DestinationRefused(d) == d.kind # "absent" /\ (d.kind = "file" \/ d.kind = "nonempty")

\* The destination must not be a file or a non-empty directory.
CheckoutValidate(p) ==
    /\ pc[p] = "co_validate"
    /\ IF DestinationRefused(fs[cfg[p].destination])
       THEN Fatal(p)
       ELSE Goto(p, "token_list")
    /\ UNCHANGED <<world, runs, cmd, cfg, token, token_id, html_url, clone_url,
                   branch_name, now, log>>

\* git clone <scheme>://git:<token>@<host>/<owner>/<repo_name>.git <destination>
CheckoutClone(p) ==
    /\ pc[p] = "co_clone"
    /\ LET key == <<CheckoutOwner(cfg[p]), CheckoutRepo(cfg[p])>> IN
       \E rc \in CloneOutcomes(UrlOf(key)) :
          /\ Logged(p, "git_clone", rc, IF key \in repos THEN "" ELSE "not found")
          /\ IF rc = 0
             THEN /\ fs' = [fs EXCEPT ![cfg[p].destination] = CloneOf(UrlOf(key), "main")]
                  /\ Return(p)
             ELSE /\ Fatal(p)
                  /\ UNCHANGED fs
    /\ UNCHANGED <<forge, cluster, clock, config, given, runs, cmd, cfg, token, token_id, html_url,
                   clone_url, branch_name, now>>

\* ------------------------------------------------------------ specification
Step(p) ==
    \/ StartRepo(p)
    \/ StartPr(p)
    \/ StartCheckout(p)
    \/ Validate(p)
    \/ Probe(p)
    \/ TokenList(p)
    \/ TokenDelete(p)
    \/ TokenCreate(p)
    \/ RepoDelete(p)
    \/ RepoCreate(p)
    \/ CreateWebhook(p)
    \/ PacNamespace(p)
    \/ PacSecretDelete(p)
    \/ PacSecretCreate(p)
    \/ PacCrDelete(p)
    \/ PacCrApply(p)
    \/ Clone(p)
    \/ Branch(p)
    \/ PrRead(p)
    \/ PrCommit(p)
    \/ PrCreate(p)
    \/ PrOpen(p)
    \/ CheckoutValidate(p)
    \/ CheckoutClone(p)

\* Invocations one after the other: the tool is single-threaded and sequential.
Next == Step(1)

Spec == Init /\ [][Next]_vars

\* ------------------------------------------------ configuration resolution
\* The sources are anything they can be; cli() and the head of repo_command run once.
InitResolve ==
    /\ Start
    /\ repos = {}
    /\ given \in Sources
    /\ config = NoConfiguration

Resolve ==
    /\ config = NoConfiguration
    /\ config' = Resolved(given)
    /\ UNCHANGED <<forge, cluster, fs, clock, given, runs, locals>>

SpecResolve == InitResolve /\ [][Resolve]_vars

\* ---------------------------------------------- invocations at the same time
\* Two terminals run the tool at once: nothing in main.py makes one wait for the other.
\* The account owns the repository, no webhook is configured.
PairConfiguration ==
    [forgejo_url |-> ForgejoUrl, username |-> username, password |-> password,
     repo_owner |-> <<"alice">>, skip_tls |-> FALSE, webhook_url |-> "", smee_url |-> "",
     internal_url |-> DefaultInternalUrl]

\* Two pr invocations on the repository, with the default options.
InitPrPair ==
    /\ Init
    /\ config = PairConfiguration
    /\ repos = {<<"alice", RepoName>>}

StartPrPair(p) == Invoke(p, "pr", NoCfg)

NextPrPair ==
    \E p \in Procs :
        \/ StartPrPair(p)
        \/ Validate(p)
        \/ TokenList(p)
        \/ TokenDelete(p)
        \/ TokenCreate(p)
        \/ PrRead(p)
        \/ PrCommit(p)
        \/ PrCreate(p)
        \/ PrOpen(p)

SpecPrPair == InitPrPair /\ [][NextPrPair]_vars

\* Two repo invocations of the same repository, hence of the same token name, with
\* neither webhook nor cluster registration.
InitRepoPair ==
    /\ Init
    /\ config = PairConfiguration
    /\ repos \in {{}, {<<"alice", RepoName>>}}

StartRepoPair(p) == Invoke(p, "repo", NoCfg)

RepoPairStep(p) ==
    \/ StartRepoPair(p)
    \/ Validate(p)
    \/ Probe(p)
    \/ TokenList(p)
    \/ TokenDelete(p)
    \/ TokenCreate(p)
    \/ RepoDelete(p)
    \/ RepoCreate(p)
    \/ Clone(p)
    \/ Branch(p)

\* Mutant: an invocation takes its steps only while no other one is under way.
NextRepoPairOneAtATime ==
    \E p \in Procs :
        /\ \A q \in Procs \ {p} : pc[q] \in {"idle", "done"}
        /\ RepoPairStep(p)

NextRepoPair == \E p \in Procs : RepoPairStep(p)

SpecRepoPair == InitRepoPair /\ [][NextRepoPair]_vars

\* Two repo invocations with a webhook URL configured: the requests sent with the
\* token are the repository's deletion and creation and the webhook's creation.
HookPairConfiguration == [PairConfiguration EXCEPT !.webhook_url = "http://hook"]

InitHookPair ==
    /\ Init
    /\ config = HookPairConfiguration
    /\ repos \in {{}, {<<"alice", RepoName>>}}

NextHookPair == \E p \in Procs : RepoPairStep(p) \/ CreateWebhook(p)

SpecHookPair == InitHookPair /\ [][NextHookPair]_vars

\* ================================================================== claims
HasEntry(p, op, st) == \E i \in 1..Len(log[p]) : log[p][i].op = op /\ log[p][i].st = st
Finished(p) == pc[p] = "done"

\* C1 (taken at its most favourable: only runs that end with exit status zero are
\* held to it): after each repo run a repository exists at (owner, name), owner
\* being the left segment of the configured owner string.
C1_RepoAtOwnerAfterRun ==
    \A p \in Procs :
        (cmd[p] = "repo" /\ Finished(p) /\ exit_code[p] = 0)
            => <<Owner(config.repo_owner), RepoName>> \in repos

C3_MissingKubectlFailsRun ==
    \A p \in Procs :
        (cmd[p] = "repo" /\ HasEntry(p, "create_namespace", NoStatus))
            => /\ Ops(p) \cap {"create_secret", "apply_repository"} = {}
               /\ (Finished(p) => exit_code[p] = 1)

\* C4: a checkout whose destination is a file or a non-empty directory issues no
\* request and no subprocess, and ends with a non-zero exit status.
C4_BadDestinationBeforeNetwork ==
    \A p \in Procs :
        (/\ cmd[p] = "checkout"
         /\ "git_clone" \notin Ops(p)
         /\ fs[cfg[p].destination].kind \in {"file", "nonempty"})
            => /\ log[p] = <<>>
               /\ pc[p] \in {"validate", "co_validate", "done"}
               /\ (Finished(p) => exit_code[p] = 1)

\* C4 witness: a checkout refused for its non-empty destination, nothing issued.
C4_Witness ==
    /\ cmd[1] = "checkout"
    /\ fs[cfg[1].destination].kind = "nonempty"
    /\ Finished(1)
    /\ exit_code[1] = 1
    /\ log[1] = <<>>

\* C5: a non-2xx answer to the token creation makes create_access_token return the
\* password, the run is not ended by it, and it goes on to the next step of its
\* workflow holding the password as its credential.
C5_FallbackStep ==
    \A p \in Procs :
        (/\ pc[p] = "token_create"
         /\ pc'[p] # "token_create"
         /\ Last(log'[p]).st \notin {200, 201})
            => /\ token'[p] = password
               /\ exit_code'[p] = 0
               /\ pc'[p] = CASE cmd[p] = "repo" -> "repo_delete"
                             [] cmd[p] = "pr" -> "pr_read"
                             [] cmd[p] = "checkout" -> "co_clone"
C5_FallbackHeld ==
    \A p \in Procs :
        (\E st \in Status(p, "token_create") : st \notin {200, 201})
            => token[p] = password
\* C5, both parts: the step after a refused creation, and the credential held since.
C5_PasswordFallbackNotFatal == []C5_FallbackHeld /\ [][C5_FallbackStep]_vars

\* C5 witness: a checkout that cloned with the password after a refused creation.
C5_Witness ==
    /\ cmd[1] = "checkout"
    /\ HasEntry(1, "token_create", 500)
    /\ token[1] = password
    /\ "git_clone" \in Ops(1)

\* C6: a repository creation answered with a status other than 201 or 409 ends the
\* repo run with exit status 1 and nothing is issued after it; the delete request
\* before it never ends the run, whatever its status.
C6_CreateFatalDeleteNot ==
    \A p \in Procs :
        cmd[p] = "repo" =>
            /\ (\E st \in Status(p, "repo_create") : st \notin {201, 409})
                   => /\ Finished(p)
                      /\ exit_code[p] = 1
                      /\ Last(log[p]).op = "repo_create"
            /\ (log[p] # <<>> /\ Last(log[p]).op = "repo_delete")
                   => /\ pc[p] = "repo_create"
                      /\ exit_code[p] = 0

\* C6 witness: a failed delete went on to a creation whose failure ended the run.
C6_Witness ==
    /\ cmd[1] = "repo"
    /\ HasEntry(1, "repo_delete", 500)
    /\ HasEntry(1, "repo_create", 500)
    /\ Finished(1)
    /\ exit_code[1] = 1

\* C7: a repo run whose creation was answered 409 and that reaches the clone step
\* clones the repository at (owner, repo).
C7_ConflictClonesRepository ==
    \A p \in Procs :
        (cmd[p] = "repo" /\ HasEntry(p, "repo_create", 409) /\ "git_clone" \in Ops(p))
            => clone_url[p] = UrlOf(<<Owner(config.repo_owner), RepoName>>)

\* C8: no repo run ends having created some but not all of namespace, secret and
\* custom resource.
C8_TripleAllOrNothing ==
    \A p \in Procs :
        (cmd[p] = "repo" /\ Finished(p))
            => \/ /\ HasEntry(p, "create_namespace", 0)
                  /\ HasEntry(p, "create_secret", 0)
                  /\ HasEntry(p, "apply_repository", 0)
               \/ /\ ~HasEntry(p, "create_namespace", 0)
                  /\ ~HasEntry(p, "create_secret", 0)
                  /\ ~HasEntry(p, "apply_repository", 0)

\* C9: the step that ends a run with exit status 1 undoes nothing: tokens,
\* repositories, webhooks and cluster resources are as they were before it, and a
\* token this run created is still valid after it.
C9_FatalStepKeepsRemoteState ==
    \A p \in Procs :
        (exit_code[p] = 0 /\ exit_code'[p] = 1)
            => /\ UNCHANGED <<tokens, hooks, namespaces, secrets, crs>>
               /\ repos' = repos
               /\ HasEntry(p, "token_create", 201)
                     => \E t \in tokens' : Sha1(t.sha1) = token'[p]
\* C9 as a property of every step.
C9_NoRollback == [][C9_FatalStepKeepsRemoteState]_vars

\* C9 witness: a failed clone after repository, webhook and custom resource were made.
C9_Witness ==
    /\ cmd[1] = "repo"
    /\ Finished(1)
    /\ exit_code[1] = 1
    /\ HasEntry(1, "repo_create", 201)
    /\ Last(log[1]).op = "git_clone"
    /\ HasEntry(1, "webhook", 201)
    /\ HasEntry(1, "apply_repository", 0)
    /\ clone_url[1] \in repos
    /\ hooks # {}
    /\ crs # {}

\* C10: a webhook request is issued only with a webhook or smee URL configured and
\* carries the explicit webhook URL whenever that is set; whatever its status, the
\* run goes on to cluster registration or clone with its exit status untouched.
C10_HookUrl ==
    \A p \in Procs : \A i \in 1..Len(log[p]) :
        log[p][i].op = "webhook" =>
            /\ config.webhook_url # "" \/ config.smee_url # ""
            /\ config.webhook_url # "" => log[p][i].info = config.webhook_url
            /\ config.webhook_url = "" => log[p][i].info = config.smee_url
            /\ log[p][i].st = 201 =>
                   [repo |-> <<Owner(config.repo_owner), RepoName>>,
                    url |-> log[p][i].info] \in hooks
C10_HookStep ==
    \A p \in Procs :
        (pc[p] = "webhook" /\ pc'[p] # "webhook")
            => /\ exit_code'[p] = exit_code[p]
               /\ pc'[p] = IF cfg[p].create_pac_cr THEN "pac_namespace" ELSE "clone"
\* C10, both parts: the URL a webhook request carries, and the step after it.
C10_WebhookOptionalNotFatal == []C10_HookUrl /\ [][C10_HookStep]_vars

\* C10 witness: both URLs set, the webhook refused, the run registered, cloned, exit 0.
C10_Witness ==
    /\ cmd[1] = "repo"
    /\ config.webhook_url # ""
    /\ config.smee_url # ""
    /\ HasEntry(1, "webhook", 500)
    /\ "create_namespace" \in Ops(1)
    /\ HasEntry(1, "git_clone", 0)
    /\ Finished(1)
    /\ exit_code[1] = 0

Generated(p) == cmd[p] = "pr" /\ branch_name[p] # NoBranch
Running(p) == pc[p] \notin {"idle", "done"}
C13_NeverHeldBack ==
    \A p \in Procs :
        (Running(p) \/ runs < MaxRuns) => ENABLED (NextRepoPair /\ pc'[p] # pc[p])
C13_EitherGetsTheToken ==
    (/\ pc[1] = "token_create"
     /\ pc[2] = "token_create"
     /\ ~\E t \in tokens : t.name = RepoName)
        => \A p \in Procs : ENABLED (NextRepoPair /\ token'[p] = Sha1(nextSha))
C13_OneTokenSurvives ==
    (/\ Finished(1) /\ HasEntry(1, "token_create", 201)
     /\ Finished(2) /\ HasEntry(2, "token_create", 201))
        => Authorized(1) # Authorized(2)
C13_ConcurrentRepoRunsRace ==
    /\ C13_NeverHeldBack
    /\ C13_EitherGetsTheToken
    /\ C13_OneTokenSurvives

\* C13 witness: both invocations recreated token and repository; what is left at the
\* end is the token and the repository of invocation 2, the token of 1 is revoked.
C13_Witness ==
    /\ \A p \in Procs :
           /\ Finished(p)
           /\ HasEntry(p, "token_create", 201)
           /\ HasEntry(p, "repo_create", 201)
    /\ Authorized(2)
    /\ ~Authorized(1)
    /\ HasEntry(2, "repo_delete", 204)
    /\ <<"alice", RepoName>> \in repos

\* The same with the invocations exchanged: the other outcome of the race.
C13_WitnessOther ==
    /\ \A p \in Procs :
           /\ Finished(p)
           /\ HasEntry(p, "token_create", 201)
           /\ HasEntry(p, "repo_create", 201)
    /\ Authorized(1)
    /\ ~Authorized(2)
    /\ HasEntry(1, "repo_delete", 204)
    /\ <<"alice", RepoName>> \in repos

\* C14: a repo run that finds its local destination in place returns with exit status
\* 0 without running git clone or git checkout and leaves the destination as it is;
\* by then the token steps, the delete, an accepted creation and, where configured or
\* requested, the webhook and the cluster registration have been issued.
C14_RemoteStepsDone ==
    \A p \in Procs :
        (cmd[p] = "repo" /\ pc[p] = "clone")
            => /\ {"token_create", "repo_delete"} \subseteq Ops(p)
               /\ Status(p, "repo_create") \cap {201, 409} # {}
               /\ EffectiveWebhookUrl(config) # "" => "webhook" \in Ops(p)
               /\ cfg[p].create_pac_cr => "create_namespace" \in Ops(p)
               /\ Ops(p) \cap {"git_clone", "git_checkout"} = {}
C14_SkipStep ==
    \A p \in Procs :
        (cmd[p] = "repo" /\ pc[p] = "clone" /\ fs[DefaultCheckout].kind # "absent")
            => (pc'[p] # pc[p]
                    => /\ pc'[p] = "done"
                       /\ exit_code'[p] = 0
                       /\ log'[p] = log[p]
                       /\ fs' = fs)
C14_ExistingDestinationSkipsClone == []C14_RemoteStepsDone /\ [][C14_SkipStep]_vars

\* C14 witness: a second run recreated the repository, its webhook and its custom
\* resource, found the clone of the first run and ended with exit status 0.
C14_Witness ==
    /\ cmd[1] = "repo"
    /\ runs = 2
    /\ Finished(1)
    /\ exit_code[1] = 0
    /\ HasEntry(1, "repo_create", 201)
    /\ HasEntry(1, "webhook", 201)
    /\ HasEntry(1, "apply_repository", 0)
    /\ "git_clone" \notin Ops(1)
    /\ fs[DefaultCheckout].branch = "tektonci"

\* C15: after a repo run that ends with exit status 0 the local checkout is a clone
\* of the repository this run created, which is on the forge, and the custom
\* resource the run applied carries that repository's URL.
C15_LocalMatchesRemote ==
    \A p \in Procs :
        (cmd[p] = "repo" /\ Finished(p) /\ exit_code[p] = 0)
            => /\ HasEntry(p, "repo_create", 201)
               /\ CreateKey(p) \in repos
               /\ fs[DefaultCheckout].origin = UrlOf(CreateKey(p))
               /\ HasEntry(p, "apply_repository", 0)
                      => \E r \in crs : /\ r.ns = RepoName
                                        /\ r.name = RepoName
                                        /\ r.url = UrlOf(CreateKey(p))

C17_FolderOverrides ==
    config # NoConfiguration =>
        /\ given.folder.api_url # "" => config.forgejo_url = given.folder.api_url
        /\ given.folder.username # "" => config.username = given.folder.username
        /\ given.folder.password # None => config.password = given.folder.password
        /\ given.folder.repo_owner # <<>> => config.repo_owner = given.folder.repo_owner
        /\ given.folder.skip_tls # ""
               => config.skip_tls = (given.folder.skip_tls \in {"true", "1", "yes"})
        /\ given.folder.smee_url # "" => config.smee_url = given.folder.smee_url
        /\ given.folder.internal_url # "" => config.internal_url = given.folder.internal_url

\* C18: a repo run for owner alice and repository demo, cluster registration
\* requested, in which every request and subprocess succeeded, ends with exit status 0
\* and leaves a repository at alice/demo, a valid token named demo, and a namespace
\* demo holding a secret demo whose key token is that token and a custom resource demo
\* whose URL is the one of alice/demo.
Succeeded(e) ==
    CASE e.op \in {"token_list"} -> e.st = 200
      [] e.op \in {"token_delete", "repo_delete"} -> e.st \in {204, 404}
      [] e.op \in {"token_create", "repo_create", "webhook"} -> e.st = 201
      [] e.op = "create_namespace" -> e.st = 0 \/ e.info = "AlreadyExists"
      [] OTHER -> e.st = 0
\* The run got to the forge (configuration complete, no TLS error) and nothing failed.
AllSucceeded(p) == log[p] # <<>> /\ \A i \in 1..Len(log[p]) : Succeeded(log[p][i])
C18_RepoScenario ==
    \A p \in Procs :
        (/\ cmd[p] = "repo"
         /\ config.repo_owner = <<"alice">>
         /\ cfg[p].create_pac_cr
         /\ Finished(p)
         /\ AllSucceeded(p))
            => /\ exit_code[p] = 0
               /\ <<"alice", "demo">> \in repos
               /\ \E t \in tokens : t.name = "demo" /\ Sha1(t.sha1) = token[p]
               /\ "demo" \in namespaces
               /\ [ns |-> "demo", name |-> "demo", token |-> token[p]] \in secrets
               /\ [ns |-> "demo", name |-> "demo", url |-> UrlOf(<<"alice", "demo">>)] \in crs
               /\ fs[DefaultCheckout].origin = UrlOf(<<"alice", "demo">>)

\* C18 witness: such a run, from the token to the checkout of the working branch.
C18_Witness ==
    /\ cmd[1] = "repo"
    /\ config.repo_owner = <<"alice">>
    /\ cfg[1].create_pac_cr
    /\ Finished(1)
    /\ AllSucceeded(1)
    /\ HasEntry(1, "apply_repository", 0)
    /\ HasEntry(1, "git_checkout", 0)
    /\ <<"alice", "demo">> \in repos

\* C19: what a repo run issues follows one order: token listing, token deletion,
\* token creation, repository deletion, repository creation, webhook, namespace,
\* secret deletion, secret creation, custom-resource deletion, custom-resource
\* application, git clone, git checkout.  The creation comes after a deletion request
\* of the same run, nothing comes after the creation unless it was answered 201 or
\* 409, and git checkout comes only after a git clone that returned 0.
RepoOrder ==
    <<"token_list", "token_delete", "token_create", "repo_delete", "repo_create",
      "webhook", "create_namespace", "delete_secret", "create_secret",
      "delete_repository", "apply_repository", "git_clone", "git_checkout">>
Rank == [op \in {RepoOrder[k] : k \in 1..Len(RepoOrder)} |->
            CHOOSE k \in 1..Len(RepoOrder) : RepoOrder[k] = op]
Before(p, i, op) == {log[p][j].st : j \in {k \in 1..(i - 1) : log[p][k].op = op}}
C19_RepoStepOrder ==
    \A p \in Procs :
        cmd[p] = "repo" =>
            \A i \in 1..Len(log[p]) :
                /\ i > 1 => Rank[log[p][i - 1].op] < Rank[log[p][i].op]
                /\ log[p][i].op = "repo_delete" => Before(p, i, "token_create") # {}
                /\ log[p][i].op = "repo_create" => Before(p, i, "repo_delete") # {}
                /\ Rank[log[p][i].op] > Rank["repo_create"]
                       => Before(p, i, "repo_create") \cap {201, 409} # {}
                /\ log[p][i].op = "git_checkout" => 0 \in Before(p, i, "git_clone")

\* C19 witness: a run that issued every step from the token creation to the checkout.
C19_Witness ==
    /\ cmd[1] = "repo"
    /\ Finished(1)
    /\ {"token_list", "token_create", "repo_delete", "repo_create", "webhook",
         "create_namespace", "delete_secret", "create_secret", "delete_repository",
         "apply_repository", "git_clone", "git_checkout"} \subseteq Ops(1)

\* C20: within one invocation of any workflow no request and no subprocess is issued
\* twice, whether it failed or not.
C20_NoRetries ==
    \A p \in Procs : \A i \in 1..Len(log[p]) : \A j \in 1..Len(log[p]) :
        log[p][i].op = log[p][j].op => i = j

\* C20 witness: a run whose token listing and webhook failed and that was ended by a
\* failed git clone, each of them issued once.
C20_Witness ==
    /\ cmd[1] = "repo"
    /\ Finished(1)
    /\ exit_code[1] = 1
    /\ HasEntry(1, "token_list", 500)
    /\ HasEntry(1, "webhook", 500)
    /\ HasEntry(1, "git_clone", 128)
    /\ Len(log[1]) = Cardinality(Ops(1))

\* C21: a failed secret creation ends the cluster registration with the custom
\* resource neither deleted nor applied; after it, and after the custom-resource
\* application whatever its outcome, the repo run is at its clone step with its exit
\* status untouched.
C21_NoResourceAfterFailedSecret ==
    \A p \in Procs :
        HasEntry(p, "create_secret", 1)
            => Ops(p) \cap {"delete_repository", "apply_repository"} = {}
C21_SubStepEnds ==
    \A p \in Procs :
        /\ (pc[p] = "pac_secret_create" /\ pc'[p] # pc[p] /\ Last(log'[p]).st # 0)
               => /\ pc'[p] = "clone"
                  /\ exit_code'[p] = 0
                  /\ crs' = crs
        /\ (pc[p] = "pac_cr_apply" /\ pc'[p] # pc[p])
               => /\ pc'[p] = "clone"
                  /\ exit_code'[p] = 0
C21_PacFailuresEndSubStepOnly ==
    []C21_NoResourceAfterFailedSecret /\ [][C21_SubStepEnds]_vars

\* C21 witness: the secret creation failed, the run cloned and ended with exit status 0.
C21_Witness ==
    /\ cmd[1] = "repo"
    /\ HasEntry(1, "create_namespace", 0)
    /\ HasEntry(1, "create_secret", 1)
    /\ HasEntry(1, "git_clone", 0)
    /\ Finished(1)
    /\ exit_code[1] = 0
    /\ crs = {}

\* C22: a namespace creation that reports AlreadyExists goes on to the secret
\* deletion as a successful one does, with the exit status untouched; and a run that
\* found the namespace in place and whose four kubectl steps after it returned 0
\* leaves exactly one secret and one custom resource of the name, holding this run's
\* token and this run's repository URL.
C22_Replaced ==
    \A p \in Procs :
        (/\ HasEntry(p, "apply_repository", 0)
         /\ HasEntry(p, "delete_repository", 0)
         /\ HasEntry(p, "delete_secret", 0)
         /\ \E i \in 1..Len(log[p]) : log[p][i].info = "AlreadyExists")
            => /\ Named(secrets, p)
                     = {[ns |-> RepoName, name |-> RepoName, token |-> token[p]]}
               /\ Named(crs, p)
                     = {[ns |-> RepoName, name |-> RepoName, url |-> html_url[p]]}
C22_NamespaceStep ==
    \A p \in Procs :
        (/\ pc[p] = "pac_namespace"
         /\ pc'[p] # pc[p]
         /\ Last(log'[p]).st = 0 \/ Last(log'[p]).info = "AlreadyExists")
            => /\ pc'[p] = "pac_secret_delete"
               /\ exit_code'[p] = 0
C22_AlreadyExistsIsSuccess == []C22_Replaced /\ [][C22_NamespaceStep]_vars

\* C22 witness: a second run found the namespace of the first, and the secret left in
\* it is the token of the second run.
C22_Witness ==
    /\ cmd[1] = "repo"
    /\ runs = 2
    /\ Entry("create_namespace", 1, "AlreadyExists") \in {log[1][i] : i \in 1..Len(log[1])}
    /\ HasEntry(1, "token_delete", 204)
    /\ HasEntry(1, "apply_repository", 0)
    /\ token[1] = Sha1(2)
    /\ secrets = {[ns |-> RepoName, name |-> RepoName, token |-> Sha1(2)]}
    /\ crs = {[ns |-> RepoName, name |-> RepoName, url |-> UrlOf(<<"alice", RepoName>>)]}

\* C23: in a repo run without --on-org an accepted creation puts the repository under
\* the authenticated user, while an accepted deletion removes, and an accepted
\* webhook is attached to, the repository of the configured owner: the same
\* repository only if the configured owner is the authenticated user.
C23_Targets ==
    \A p \in Procs :
        (cmd[p] = "repo" /\ ~cfg[p].on_org /\ pc'[p] # pc[p])
            => /\ (pc[p] = "repo_create" /\ Last(log'[p]).st = 201)
                      => /\ repos' = repos \cup {<<username, RepoName>>}
                         /\ <<username, RepoName>> \notin repos
               /\ (pc[p] = "repo_delete" /\ Last(log'[p]).st = 204)
                      => /\ repos' = repos \ {<<config.repo_owner[1], RepoName>>}
                         /\ <<config.repo_owner[1], RepoName>> \in repos
               /\ (pc[p] = "webhook" /\ Last(log'[p]).st = 201)
                      => /\ hooks' = hooks \cup {[repo |-> <<config.repo_owner[1], RepoName>>,
                                                   url |-> Last(log'[p]).info]}
                         /\ <<config.repo_owner[1], RepoName>> \in repos
C23_CreateTargetsUser == [][C23_Targets]_vars

\* C23 witness: the configured owner is an organisation; the run deleted the
\* organisation's repository, created one under the user, and its webhook request
\* found no repository.
C23_Witness ==
    /\ cmd[1] = "repo"
    /\ ~cfg[1].on_org
    /\ config.repo_owner = <<"org", "proj">>
    /\ HasEntry(1, "repo_delete", 204)
    /\ HasEntry(1, "repo_create", 201)
    /\ HasEntry(1, "webhook", 404)
    /\ <<"alice", RepoName>> \in repos
    /\ <<"org", RepoName>> \notin repos

C24_SecretStep ==
    \A p \in Procs :
        /\ (pc[p] = "pac_secret_create" /\ pc'[p] # pc[p] /\ Last(log'[p]).st = 0)
               => secrets' = secrets \cup {[ns |-> RepoName, name |-> RepoName,
                                            token |-> token[p]]}
        /\ (pc[p] \notin {"idle", "done", "token_create"}) => token'[p] = token[p]
C24_FallbackStopsAtCreation ==
    /\ \A p \in Procs :
           (cmd[p] = "repo" /\ token[p] = password)
               => /\ pc[p] \in {"repo_delete", "repo_create", "done"}
                  /\ Finished(p) => (exit_code[p] = 1 /\ Last(log[p]).st = 401)
    /\ \A x \in secrets : x.token # password
HoldsRevoked(p) ==
    /\ HasEntry(p, "token_create", 201)
    /\ ~ \E t \in tokens : Sha1(t.sha1) = token[p]

\* C25: a run holding the secret of a token the other run has deleted does not notice:
\* it keeps the secret and sends its next requests with it, each is answered 401 and
\* changes nothing on the forge, and what follows is the request's own rule: the
\* deletion's answer is ignored, a creation not answered 201 or 409 ends the run with
\* exit status 1, the webhook's failure is printed and the run goes on to the clone.
C25_RevokedStep ==
    \A p \in Procs :
        (HoldsRevoked(p) /\ pc[p] \in {"repo_delete", "repo_create", "webhook"}
                         /\ pc'[p] # pc[p])
            => /\ token'[p] = token[p]
               /\ Last(log'[p]).st = 401
               /\ UNCHANGED <<tokens, repos, hooks>>
               /\ pc[p] = "repo_delete" => pc'[p] = "repo_create"
               /\ pc[p] = "repo_create" => (pc'[p] = "done" /\ exit_code'[p] = 1)
               /\ pc[p] = "webhook" => (pc'[p] = "clone" /\ exit_code'[p] = 0)
C25_RevokedSecretUndetected == [][C25_RevokedStep]_vars

\* C25 witness: run 1 created its token and its repository, run 2 then deleted that
\* token and created its own; run 1's webhook was refused and run 1 ended with
\* exit status zero, still holding the revoked secret.
C25_Witness ==
    /\ HoldsRevoked(1)
    /\ HasEntry(2, "token_delete", 204)
    /\ Authorized(2)
    /\ HasEntry(1, "repo_create", 201)
    /\ HasEntry(1, "webhook", 401)
    /\ Finished(1)
    /\ exit_code[1] = 0

\* The other case: the token was deleted before run 1 asked for the repository; the
\* deletion's 401 was ignored and the creation's 401 ended the run.
C25_WitnessFatal ==
    /\ HoldsRevoked(1)
    /\ HasEntry(2, "token_delete", 204)
    /\ HasEntry(1, "repo_delete", 401)
    /\ HasEntry(1, "repo_create", 401)
    /\ Finished(1)
    /\ exit_code[1] = 1

====
